---------------------------- MODULE Spec2Model ----------------------------
(***************************************************************************)
(* The virtual whiteboard widget (VirtualWhiteboard): stroke capture,      *)
(* undo/redo history over whole-array snapshots, and the full-redraw       *)
(* renderer.  Every React event handler is one atomic step: a handler runs *)
(* against the state of the last render, its setState calls are applied    *)
(* together, and the effect on [paths] (redrawCanvas) runs before the next *)
(* event.                                                                  *)
(***************************************************************************)
EXTENDS Integers, Sequences, FiniteSets, TLC

VARIABLES
    isReadOnly,     \* prop isReadOnly, fixed for the life of the widget
    isDrawing,      \* useState(false)
    currentTool,    \* useState<Tool>('pen')
    strokeColor,    \* useState('#000000')
    strokeWidth,    \* useState(2)
    paths,          \* useState<DrawingPath[]>([])      (the committed list)
    undoStack,      \* useState<DrawingPath[][]>([])
    redoStack,      \* useState<DrawingPath[][]>([])
    currentPath,    \* useState<DrawingPath | null>(null)
    canvas,         \* what the 2D context of canvasRef has painted last
    now,            \* the value Date.now() returns
    canvasRef,      \* canvasRef.current is the canvas element, not null
    offered,        \* the download the handler that ran last offered
    lastOp,         \* history: the handler that ran last, and its pointer position
    prev            \* history: the widget state that handler ran against

vars == << isReadOnly, isDrawing, currentTool, strokeColor, strokeWidth, paths,
           undoStack, redoStack, currentPath, canvas, now, canvasRef, offered,
           lastOp, prev >>

---------------------------------------------------------------------------
(* Bounds of the model *)

\* startDrawing and clearCanvas are offered while the two stacks hold fewer
\* than MaxHistory snapshots together
MaxHistory == 2
\* draw is offered while the in-progress path has fewer than MaxPoints points
MaxPoints == 2
\* the clock stops at MaxTime
MaxTime == 1
\* the rendering specification draws paths of up to MaxRenderPoints points
MaxRenderPoints == 3
\* the layering specification draws up to MaxLayers committed paths
MaxLayers == 2
\* the style specification commits up to MaxStyleCommits paths
MaxStyleCommits == 1

(* Program constants *)

width == 800
height == 600
DefaultStrokeWidth == 2

Tools == {"pen", "eraser", "rectangle", "circle", "text", "move"}

colors == << "#000000", "#FF0000", "#00FF00", "#0000FF",
             "#FFFF00", "#FF00FF", "#00FFFF", "#FFA500" >>

strokeWidths == << 1, 2, 4, 8, 12 >>

\* currentPath = null
Null == [null |-> TRUE]

\* the pointer position recorded for a handler that takes no pointer event
NoPos == [none |-> TRUE]

(* The inputs the user gives in the whole-widget specification: the       *)
(* offsets of the pointer events and the swatches and buttons clicked      *)

Positions == { [x |-> 0, y |-> 0], [x |-> 3, y |-> 4] }
ToolChoices == {"pen", "rectangle"}
ColorChoices == { colors[1] }
WidthChoices == { strokeWidths[2] }

(* The inputs of the rendering specification *)

RenderPositions ==
    { [x |-> 0, y |-> 0], [x |-> 3, y |-> 4],
      [x |-> 10, y |-> 10], [x |-> 50, y |-> 40] }
RenderColors == { colors[1], colors[2] }

---------------------------------------------------------------------------
(* The 2D rendering context.  The surface is kept as the list of paint     *)
(* calls made since it was last cleared whole (image), together with the   *)
(* context's current path (subpath) and drawing state.                     *)

NewContext ==
    [ image |-> << >>, subpath |-> << >>,
      strokeStyle |-> "#000000", fillStyle |-> "#000000", lineWidth |-> 1,
      lineCap |-> "butt", lineJoin |-> "miter",
      globalCompositeOperation |-> "source-over" ]

\* ctx.clearRect(x, y, w, h)
clearRect(ctx, x, y, w, h) ==
    IF w = 0 \/ h = 0 THEN ctx
    ELSE IF x = 0 /\ y = 0 /\ w = width /\ h = height
         THEN [ctx EXCEPT !.image = << >>]
         ELSE [ctx EXCEPT !.image =
                  Append(@, [op |-> "clearRect", x |-> x, y |-> y, w |-> w, h |-> h])]

\* ctx.fillRect(x, y, w, h)
fillRect(ctx, x, y, w, h) ==
    [ctx EXCEPT !.image =
        Append(@, [op |-> "fillRect", x |-> x, y |-> y, w |-> w, h |-> h,
                   fillStyle |-> ctx.fillStyle,
                   globalCompositeOperation |-> ctx.globalCompositeOperation])]

\* ctx.beginPath()
beginPath(ctx) == [ctx EXCEPT !.subpath = << >>]

\* ctx.moveTo(x, y)
moveTo(ctx, x, y) ==
    [ctx EXCEPT !.subpath = Append(@, [seg |-> "moveTo", x |-> x, y |-> y])]

\* ctx.lineTo(x, y)
lineTo(ctx, x, y) ==
    [ctx EXCEPT !.subpath = Append(@, [seg |-> "lineTo", x |-> x, y |-> y])]

\* ctx.arc(x, y, radius, 0, 2 * Math.PI): a full circle
arc(ctx, x, y, radius) ==
    [ctx EXCEPT !.subpath =
        Append(@, [seg |-> "arc", x |-> x, y |-> y, radius |-> radius,
                   startAngle |-> "0", endAngle |-> "2*PI"])]

\* ctx.strokeRect(x, y, w, h): paints the outline at once, the current path
\* is neither used nor changed
strokeRect(ctx, x, y, w, h) ==
    [ctx EXCEPT !.image =
        Append(@, [op |-> "strokeRect", x |-> x, y |-> y, w |-> w, h |-> h,
                   strokeStyle |-> ctx.strokeStyle, lineWidth |-> ctx.lineWidth,
                   lineJoin |-> ctx.lineJoin,
                   globalCompositeOperation |-> ctx.globalCompositeOperation])]

\* ctx.stroke(): paints the outline of the current path
stroke(ctx) ==
    [ctx EXCEPT !.image =
        Append(@, [op |-> "stroke", subpath |-> ctx.subpath,
                   strokeStyle |-> ctx.strokeStyle, lineWidth |-> ctx.lineWidth,
                   lineCap |-> ctx.lineCap, lineJoin |-> ctx.lineJoin,
                   globalCompositeOperation |-> ctx.globalCompositeOperation])]

\* ctx.restore() after ctx.save(): the drawing state returns to the saved
\* one; the current path and the surface are not part of the drawing state
restore(ctx, saved) ==
    [ctx EXCEPT !.strokeStyle = saved.strokeStyle, !.fillStyle = saved.fillStyle,
                !.lineWidth = saved.lineWidth, !.lineCap = saved.lineCap,
                !.lineJoin = saved.lineJoin,
                !.globalCompositeOperation = saved.globalCompositeOperation]

\* Math.pow(b, 2)
MathPow2(b) == b * b

\* the largest r in 0..n with r * r <= n
RECURSIVE ISqrtFrom(_, _)
ISqrtFrom(n, r) == IF (r + 1) * (r + 1) > n THEN r ELSE ISqrtFrom(n, r + 1)

\* Math.sqrt(n) for an integer n >= 0, kept exactly: the real number whose
\* square is whole * whole + rest, with 0 <= rest <= 2 * whole
MathSqrt(n) ==
    LET r == ISqrtFrom(n, 0) IN [whole |-> r, rest |-> n - r * r]

\* the for loop of drawPath: lineTo for points[i .. length - 1] (1-based here)
RECURSIVE lineToAll(_, _, _)
lineToAll(ctx, points, i) ==
    IF i > Len(points) THEN ctx
    ELSE lineToAll(lineTo(ctx, points[i].x, points[i].y), points, i + 1)

\* drawPath with the rectangle's and the circle's far point read at index 1
\* instead of at the last index
drawPathSecondPoint(ctx, path) ==
    IF Len(path.points) < 2 THEN ctx
    ELSE
    LET styled == [ctx EXCEPT
                      !.strokeStyle = path.color,
                      !.lineWidth = path.strokeWidth,
                      !.lineCap = "round",
                      !.lineJoin = "round",
                      !.globalCompositeOperation =
                          IF path.tool = "eraser" THEN "destination-out"
                                                  ELSE "source-over"]
        line == lineToAll(moveTo(beginPath(styled),
                                 path.points[1].x, path.points[1].y),
                          path.points, 2)
        start == path.points[1]
        end == path.points[2]
        shaped ==
            IF path.tool = "rectangle" /\ Len(path.points) >= 2
            THEN strokeRect(clearRect(line, 0, 0, 0, 0),
                            start.x, start.y, end.x - start.x, end.y - start.y)
            ELSE IF path.tool = "circle" /\ Len(path.points) >= 2
            THEN LET radius == MathSqrt(MathPow2(end.x - start.x)
                                        + MathPow2(end.y - start.y))
                 IN arc(beginPath(clearRect(line, 0, 0, 0, 0)),
                        start.x, start.y, radius)
            ELSE line
    IN restore(stroke(shaped), ctx)

\* drawPath that composites the eraser like every other tool
drawPathEraserPaints(ctx, path) ==
    IF Len(path.points) < 2 THEN ctx
    ELSE
    LET styled == [ctx EXCEPT
                      !.strokeStyle = path.color,
                      !.lineWidth = path.strokeWidth,
                      !.lineCap = "round",
                      !.lineJoin = "round",
                      !.globalCompositeOperation = "source-over"]
        line == lineToAll(moveTo(beginPath(styled),
                                 path.points[1].x, path.points[1].y),
                          path.points, 2)
        start == path.points[1]
        end == path.points[Len(path.points)]
        shaped ==
            IF path.tool = "rectangle" /\ Len(path.points) >= 2
            THEN strokeRect(clearRect(line, 0, 0, 0, 0),
                            start.x, start.y, end.x - start.x, end.y - start.y)
            ELSE IF path.tool = "circle" /\ Len(path.points) >= 2
            THEN LET radius == MathSqrt(MathPow2(end.x - start.x)
                                        + MathPow2(end.y - start.y))
                 IN arc(beginPath(clearRect(line, 0, 0, 0, 0)),
                        start.x, start.y, radius)
            ELSE line
    IN restore(stroke(shaped), ctx)

\* drawPath that returns early only for a path without points
drawPathFromOnePoint(ctx, path) ==
    IF Len(path.points) < 1 THEN ctx
    ELSE
    LET styled == [ctx EXCEPT
                      !.strokeStyle = path.color,
                      !.lineWidth = path.strokeWidth,
                      !.lineCap = "round",
                      !.lineJoin = "round",
                      !.globalCompositeOperation =
                          IF path.tool = "eraser" THEN "destination-out"
                                                  ELSE "source-over"]
        line == lineToAll(moveTo(beginPath(styled),
                                 path.points[1].x, path.points[1].y),
                          path.points, 2)
        start == path.points[1]
        end == path.points[Len(path.points)]
        shaped ==
            IF path.tool = "rectangle" /\ Len(path.points) >= 2
            THEN strokeRect(clearRect(line, 0, 0, 0, 0),
                            start.x, start.y, end.x - start.x, end.y - start.y)
            ELSE IF path.tool = "circle" /\ Len(path.points) >= 2
            THEN LET radius == MathSqrt(MathPow2(end.x - start.x)
                                        + MathPow2(end.y - start.y))
                 IN arc(beginPath(clearRect(line, 0, 0, 0, 0)),
                        start.x, start.y, radius)
            ELSE line
    IN restore(stroke(shaped), ctx)

\* drawPath(ctx, path)
drawPath(ctx, path) ==
    IF Len(path.points) < 2 THEN ctx
    ELSE
    LET styled == [ctx EXCEPT
                      !.strokeStyle = path.color,
                      !.lineWidth = path.strokeWidth,
                      !.lineCap = "round",
                      !.lineJoin = "round",
                      !.globalCompositeOperation =
                          IF path.tool = "eraser" THEN "destination-out"
                                                  ELSE "source-over"]
        line == lineToAll(moveTo(beginPath(styled),
                                 path.points[1].x, path.points[1].y),
                          path.points, 2)
        start == path.points[1]
        end == path.points[Len(path.points)]
        shaped ==
            IF path.tool = "rectangle" /\ Len(path.points) >= 2
            THEN strokeRect(clearRect(line, 0, 0, 0, 0),
                            start.x, start.y, end.x - start.x, end.y - start.y)
            ELSE IF path.tool = "circle" /\ Len(path.points) >= 2
            THEN LET radius == MathSqrt(MathPow2(end.x - start.x)
                                        + MathPow2(end.y - start.y))
                 IN arc(beginPath(clearRect(line, 0, 0, 0, 0)),
                        start.x, start.y, radius)
            ELSE line
    IN restore(stroke(shaped), ctx)

\* paths.forEach(path => drawPath(ctx, path)), from the i-th path on
RECURSIVE drawAll(_, _, _)
drawAll(ctx, ps, i) ==
    IF i > Len(ps) THEN ctx ELSE drawAll(drawPath(ctx, ps[i]), ps, i + 1)

\* redrawCanvas that paints over what the surface shows already
redrawCanvasKeepsImage(s, ctx) ==
    LET filled == fillRect([ctx EXCEPT !.fillStyle = "#ffffff"],
                           0, 0, width, height)
        drawn == drawAll(filled, s.paths, 1)
    IN IF s.currentPath # Null /\ s.isDrawing
       THEN drawPath(drawn, s.currentPath)
       ELSE drawn

\* redrawCanvas(), run by a render whose state is s, on the context ctx
redrawCanvas(s, ctx) ==
    LET cleared == clearRect(ctx, 0, 0, width, height)
        filled == fillRect([cleared EXCEPT !.fillStyle = "#ffffff"],
                           0, 0, width, height)
        drawn == drawAll(filled, s.paths, 1)
    IN IF s.currentPath # Null /\ s.isDrawing
       THEN drawPath(drawn, s.currentPath)
       ELSE drawn

---------------------------------------------------------------------------
(* The widget state and its event handlers.  A handler is a function from  *)
(* the state of the render it closes over to the state of the next render. *)

\* a handler starts with nothing offered to the browser for download
NoDownload == [none |-> TRUE]

State ==
    [ isReadOnly |-> isReadOnly, isDrawing |-> isDrawing,
      currentTool |-> currentTool, strokeColor |-> strokeColor,
      strokeWidth |-> strokeWidth, paths |-> paths, undoStack |-> undoStack,
      redoStack |-> redoStack, currentPath |-> currentPath,
      canvas |-> canvas, now |-> now, canvasRef |-> canvasRef,
      offered |-> NoDownload ]

\* useEffect(() => { redrawCanvas(); }, [paths]): runs after a render in
\* which paths is another array than before, with that render's state
useEffectPaths(s) == [s EXCEPT !.canvas = redrawCanvas(s, s.canvas)]

\* getMousePos(e), for an event at offset pos from the canvas corner
getMousePos(pos) == [x |-> pos.x, y |-> pos.y]

\* startDrawing that makes a path without points
startDrawingNoPoint(s, e) ==
    IF s.isReadOnly THEN s
    ELSE
    LET newPath == [ id |-> ToString(s.now),
                     tool |-> s.currentTool,
                     points |-> << >>,
                     color |-> s.strokeColor,
                     strokeWidth |-> s.strokeWidth,
                     timestamp |-> s.now ]
    IN [s EXCEPT !.isDrawing = TRUE, !.currentPath = newPath]

\* startDrawing without its read-only guard
startDrawingIgnoresReadOnly(s, e) ==
    LET pos == getMousePos(e)
        newPath == [ id |-> ToString(s.now),
                     tool |-> s.currentTool,
                     points |-> << pos >>,
                     color |-> s.strokeColor,
                     strokeWidth |-> s.strokeWidth,
                     timestamp |-> s.now ]
    IN [s EXCEPT !.isDrawing = TRUE, !.currentPath = newPath]

\* startDrawing(e)
startDrawing(s, e) ==
    IF s.isReadOnly THEN s
    ELSE
    LET pos == getMousePos(e)
        newPath == [ id |-> ToString(s.now),
                     tool |-> s.currentTool,
                     points |-> << pos >>,
                     color |-> s.strokeColor,
                     strokeWidth |-> s.strokeWidth,
                     timestamp |-> s.now ]
    IN [s EXCEPT !.isDrawing = TRUE, !.currentPath = newPath]

\* draw(e)
\* draw that puts the new point in front of the others
drawPrepends(s, e) ==
    IF ~s.isDrawing \/ s.currentPath = Null \/ s.isReadOnly THEN s
    ELSE
    LET pos == getMousePos(e)
        updatedPath == [s.currentPath EXCEPT !.points = << pos >> \o @]
    IN [s EXCEPT !.currentPath = updatedPath,
                 !.canvas = redrawCanvas(s, s.canvas)]

\* draw that gives the path the tool, color and width selected now
drawRestyles(s, e) ==
    IF ~s.isDrawing \/ s.currentPath = Null \/ s.isReadOnly THEN s
    ELSE
    LET pos == getMousePos(e)
        updatedPath == [s.currentPath EXCEPT !.points = Append(@, pos),
                                             !.tool = s.currentTool,
                                             !.color = s.strokeColor,
                                             !.strokeWidth = s.strokeWidth]
    IN [s EXCEPT !.currentPath = updatedPath,
                 !.canvas = redrawCanvas(s, s.canvas)]

draw(s, e) ==
    IF ~s.isDrawing \/ s.currentPath = Null \/ s.isReadOnly THEN s
    ELSE
    LET pos == getMousePos(e)
        updatedPath == [s.currentPath EXCEPT !.points = Append(@, pos)]
    IN [s EXCEPT !.currentPath = updatedPath,
                 !.canvas = redrawCanvas(s, s.canvas)]

\* stopDrawing with the undo snapshot saved before the guard
stopDrawingSavesFirst(s) ==
    IF ~s.isDrawing \/ s.currentPath = Null
    THEN [s EXCEPT !.undoStack = Append(@, s.paths), !.redoStack = << >>]
    ELSE useEffectPaths(
           [s EXCEPT !.isDrawing = FALSE,
                     !.undoStack = Append(@, s.paths),
                     !.redoStack = << >>,
                     !.paths = Append(@, s.currentPath),
                     !.currentPath = Null])

\* stopDrawing that puts the path in front of the committed list
stopDrawingPrepends(s) ==
    IF ~s.isDrawing \/ s.currentPath = Null THEN s
    ELSE useEffectPaths(
           [s EXCEPT !.isDrawing = FALSE,
                     !.undoStack = Append(@, s.paths),
                     !.redoStack = << >>,
                     !.paths = << s.currentPath >> \o @,
                     !.currentPath = Null])

\* stopDrawing that does not save the list for undo
stopDrawingForgetsUndo(s) ==
    IF ~s.isDrawing \/ s.currentPath = Null THEN s
    ELSE useEffectPaths(
           [s EXCEPT !.isDrawing = FALSE,
                     !.redoStack = << >>,
                     !.paths = Append(@, s.currentPath),
                     !.currentPath = Null])

\* stopDrawing that keeps the committed path as the in-progress path
stopDrawingKeepsPath(s) ==
    IF ~s.isDrawing \/ s.currentPath = Null THEN s
    ELSE useEffectPaths(
           [s EXCEPT !.isDrawing = FALSE,
                     !.undoStack = Append(@, s.paths),
                     !.redoStack = << >>,
                     !.paths = Append(@, s.currentPath)])

\* stopDrawing that drops a gesture of a single point
stopDrawingSkipsClicks(s) ==
    IF ~s.isDrawing \/ s.currentPath = Null THEN s
    ELSE IF Len(s.currentPath.points) < 2
    THEN [s EXCEPT !.isDrawing = FALSE, !.currentPath = Null]
    ELSE useEffectPaths(
           [s EXCEPT !.isDrawing = FALSE,
                     !.undoStack = Append(@, s.paths),
                     !.redoStack = << >>,
                     !.paths = Append(@, s.currentPath),
                     !.currentPath = Null])

\* stopDrawing()
stopDrawing(s) ==
    IF ~s.isDrawing \/ s.currentPath = Null THEN s
    ELSE useEffectPaths(
           [s EXCEPT !.isDrawing = FALSE,
                     !.undoStack = Append(@, s.paths),
                     !.redoStack = << >>,
                     !.paths = Append(@, s.currentPath),
                     !.currentPath = Null])

\* undo that falls back to an empty list when the undo stack is empty
undoOnEmptyClears(s) ==
    IF Len(s.undoStack) = 0
    THEN useEffectPaths([s EXCEPT !.redoStack = << s.paths >> \o @,
                                  !.paths = << >>])
    ELSE
    LET previousState == s.undoStack[Len(s.undoStack)]
    IN useEffectPaths(
         [s EXCEPT !.redoStack = << s.paths >> \o @,
                   !.paths = previousState,
                   !.undoStack = SubSeq(@, 1, Len(@) - 1)])

\* undo that pushes the current list at the back of the redo stack
undoAppendsRedo(s) ==
    IF Len(s.undoStack) = 0 THEN s
    ELSE
    LET previousState == s.undoStack[Len(s.undoStack)]
    IN useEffectPaths(
         [s EXCEPT !.redoStack = Append(@, s.paths),
                   !.paths = previousState,
                   !.undoStack = SubSeq(@, 1, Len(@) - 1)])

\* undo()
undo(s) ==
    IF Len(s.undoStack) = 0 THEN s
    ELSE
    LET previousState == s.undoStack[Len(s.undoStack)]
    IN useEffectPaths(
         [s EXCEPT !.redoStack = << s.paths >> \o @,
                   !.paths = previousState,
                   !.undoStack = SubSeq(@, 1, Len(@) - 1)])

\* redo that takes the back of the redo stack
redoTakesLast(s) ==
    IF Len(s.redoStack) = 0 THEN s
    ELSE
    LET nextState == s.redoStack[Len(s.redoStack)]
    IN useEffectPaths(
         [s EXCEPT !.undoStack = Append(@, s.paths),
                   !.paths = nextState,
                   !.redoStack = SubSeq(@, 1, Len(@) - 1)])

\* redo that does not save the current list for undo
redoForgetsCurrent(s) ==
    IF Len(s.redoStack) = 0 THEN s
    ELSE
    LET nextState == s.redoStack[1]
    IN useEffectPaths(
         [s EXCEPT !.paths = nextState,
                   !.redoStack = SubSeq(@, 2, Len(@))])

\* redo()
redo(s) ==
    IF Len(s.redoStack) = 0 THEN s
    ELSE
    LET nextState == s.redoStack[1]
    IN useEffectPaths(
         [s EXCEPT !.undoStack = Append(@, s.paths),
                   !.paths = nextState,
                   !.redoStack = SubSeq(@, 2, Len(@))])

\* clearCanvas that leaves the redo stack alone
clearKeepsRedo(s) ==
    useEffectPaths(
      [s EXCEPT !.undoStack = Append(@, s.paths),
                !.paths = << >>])

\* clearCanvas that does nothing on an empty list
clearSkipsEmpty(s) ==
    IF Len(s.paths) = 0 THEN s
    ELSE useEffectPaths(
           [s EXCEPT !.undoStack = Append(@, s.paths),
                     !.redoStack = << >>,
                     !.paths = << >>])

\* clearCanvas that also gives up the gesture under way
clearCancelsGesture(s) ==
    useEffectPaths(
      [s EXCEPT !.undoStack = Append(@, s.paths),
                !.redoStack = << >>,
                !.paths = << >>,
                !.isDrawing = FALSE,
                !.currentPath = Null])

\* clearCanvas()
clearCanvas(s) ==
    useEffectPaths(
      [s EXCEPT !.undoStack = Append(@, s.paths),
                !.redoStack = << >>,
                !.paths = << >>])

\* a pointer-leave handler that drops the in-progress path
leaveDiscards(s) == [s EXCEPT !.isDrawing = FALSE, !.currentPath = Null]

\* the canvas element's onMouseUp and onMouseLeave props
onMouseUp(s) == stopDrawing(s)

onMouseLeave(s) == stopDrawing(s)

\* canvas.toDataURL(): the PNG encoding of what the canvas shows
toDataURL(ctx) == [type |-> "image/png", data |-> ctx.image]

\* downloadCanvas without its guard on the canvas: reading a canvas that
\* is not there throws
downloadCanvasUnguarded(s) ==
    IF ~s.canvasRef
    THEN [s EXCEPT !.offered = [error |-> "TypeError"]]
    ELSE [s EXCEPT !.offered =
                      [ download |-> "whiteboard-" \o ToString(s.now) \o ".png",
                        href |-> toDataURL(s.canvas) ]]

\* downloadCanvas(): a link named after the time, holding the image, clicked
downloadCanvas(s) ==
    IF ~s.canvasRef
    THEN s
    ELSE [s EXCEPT !.offered =
                      [ download |-> "whiteboard-" \o ToString(s.now) \o ".png",
                        href |-> toDataURL(s.canvas) ]]

\* a Clear All button that is never disabled
ClearNeverDisabled == FALSE

\* a Clear All button gated on the undo stack
ClearDisabledByUndoStack == Len(undoStack) = 0

\* a toolbar rendered on a read-only surface too
ToolbarAlwaysShown == TRUE

\* the toolbar is rendered
ToolbarShown == ~isReadOnly

\* the disabled props of the Undo, Redo and Clear All buttons; the Download
\* button has none
UndoDisabled == Len(undoStack) = 0

RedoDisabled == Len(redoStack) = 0

ClearDisabled == Len(paths) = 0

DownloadDisabled == FALSE

\* the counts of the status line: Paths, Undo, Redo
PathsShown == Len(paths)

UndoShown == Len(undoStack)

RedoShown == Len(redoStack)

---------------------------------------------------------------------------
(* The state machine *)

\* the part of the state the history variable prev keeps
Surface(s) ==
    [ isDrawing |-> s.isDrawing, currentTool |-> s.currentTool,
      strokeColor |-> s.strokeColor, strokeWidth |-> s.strokeWidth,
      paths |-> s.paths, undoStack |-> s.undoStack,
      redoStack |-> s.redoStack, currentPath |-> s.currentPath ]

\* the next render has state s, after the handler called name ran at pos;
\* isReadOnly is a prop, which no handler sets
Apply(s, name, pos) ==
    /\ isDrawing' = s.isDrawing
    /\ currentTool' = s.currentTool
    /\ strokeColor' = s.strokeColor
    /\ strokeWidth' = s.strokeWidth
    /\ paths' = s.paths
    /\ undoStack' = s.undoStack
    /\ redoStack' = s.redoStack
    /\ currentPath' = s.currentPath
    /\ canvas' = s.canvas
    /\ now' = s.now
    /\ canvasRef' = s.canvasRef
    /\ offered' = s.offered
    /\ lastOp' = [name |-> name, pos |-> pos]
    /\ prev' = Surface(State)

\* the state of the first render, after the mount effect has drawn it
InitialState(readOnly) ==
    useEffectPaths(
      [ isReadOnly |-> readOnly, isDrawing |-> FALSE, currentTool |-> "pen",
        strokeColor |-> "#000000", strokeWidth |-> DefaultStrokeWidth,
        paths |-> << >>, undoStack |-> << >>, redoStack |-> << >>,
        currentPath |-> Null, canvas |-> NewContext, now |-> 0,
        canvasRef |-> TRUE, offered |-> NoDownload ])

Init ==
    \E readOnly \in BOOLEAN :
        LET s == InitialState(readOnly) IN
        /\ isReadOnly = s.isReadOnly
        /\ isDrawing = s.isDrawing
        /\ currentTool = s.currentTool
        /\ strokeColor = s.strokeColor
        /\ strokeWidth = s.strokeWidth
        /\ paths = s.paths
        /\ undoStack = s.undoStack
        /\ redoStack = s.redoStack
        /\ currentPath = s.currentPath
        /\ canvas = s.canvas
        /\ now = s.now
        /\ canvasRef = s.canvasRef
        /\ offered = s.offered
        /\ lastOp = [name |-> "mount", pos |-> NoPos]
        /\ prev = Surface(s)

\* the model's bound on the snapshots held
HistorySize == Len(undoStack) + Len(redoStack)

\* mousedown on the canvas
MouseDown ==
    /\ IF isReadOnly THEN TRUE ELSE HistorySize < MaxHistory
    /\ \E pos \in Positions : Apply(startDrawing(State, pos), "startDrawing", pos)
    /\ UNCHANGED isReadOnly

\* mousemove on the canvas
MouseMove ==
    /\ IF currentPath = Null THEN TRUE ELSE Len(currentPath.points) < MaxPoints
    /\ \E pos \in Positions : Apply(draw(State, pos), "draw", pos)
    /\ UNCHANGED isReadOnly

\* mouseup on the canvas
MouseUp ==
    /\ Apply(onMouseUp(State), "mouseUp", NoPos)
    /\ UNCHANGED isReadOnly

\* the pointer leaves the canvas
MouseLeave ==
    /\ Apply(onMouseLeave(State), "mouseLeave", NoPos)
    /\ UNCHANGED isReadOnly

\* the toolbar handlers; each is called in every state in which the toolbar
\* is shown, whether or not its button is disabled
ClickUndo ==
    /\ ToolbarShown
    /\ Apply(undo(State), "undo", NoPos)
    /\ UNCHANGED isReadOnly

ClickRedo ==
    /\ ToolbarShown
    /\ Apply(redo(State), "redo", NoPos)
    /\ UNCHANGED isReadOnly

ClickClear ==
    /\ ToolbarShown
    /\ HistorySize < MaxHistory
    /\ Apply(clearCanvas(State), "clearCanvas", NoPos)
    /\ UNCHANGED isReadOnly

\* onClick={() => setCurrentTool(tool)}
ClickTool ==
    /\ ToolbarShown
    /\ \E tool \in ToolChoices :
          Apply([State EXCEPT !.currentTool = tool], "setCurrentTool", NoPos)
    /\ UNCHANGED isReadOnly

\* onClick={() => setStrokeColor(color)}
ClickColor ==
    /\ ToolbarShown
    /\ \E color \in ColorChoices :
          Apply([State EXCEPT !.strokeColor = color], "setStrokeColor", NoPos)
    /\ UNCHANGED isReadOnly

\* onClick={() => setStrokeWidth(width)}
ClickWidth ==
    /\ ToolbarShown
    /\ \E w \in WidthChoices :
          Apply([State EXCEPT !.strokeWidth = w], "setStrokeWidth", NoPos)
    /\ UNCHANGED isReadOnly

\* onClick={downloadCanvas}
ClickDownload ==
    /\ ToolbarShown
    /\ Apply(downloadCanvas(State), "downloadCanvas", NoPos)
    /\ UNCHANGED isReadOnly

\* a millisecond passes between two events
Tick ==
    /\ now < MaxTime
    /\ now' = now + 1
    /\ UNCHANGED << isReadOnly, isDrawing, currentTool, strokeColor, strokeWidth,
                    paths, undoStack, redoStack, currentPath, canvas, canvasRef,
                    offered, lastOp, prev >>

Next ==
    \/ MouseDown
    \/ MouseMove
    \/ MouseUp
    \/ MouseLeave
    \/ ClickUndo
    \/ ClickRedo
    \/ ClickClear
    \/ ClickTool
    \/ ClickColor
    \/ ClickWidth
    \/ ClickDownload
    \/ Tick

Spec == Init /\ [][Next]_vars

---------------------------------------------------------------------------
(* The rendering specification: redrawCanvas as a function of the widget   *)
(* state, applied to a widget whose committed list holds one path drawn    *)
(* from RenderPaths and whose context has painted nothing yet.             *)

\* the sequences of 1 .. MaxRenderPoints pointer positions
RenderPointSeqs ==
    UNION { [1..n -> RenderPositions] : n \in 1..MaxRenderPoints }

RenderPaths ==
    { [ id |-> ToString(0), tool |-> tool, points |-> points, color |-> color,
        strokeWidth |-> DefaultStrokeWidth, timestamp |-> 0 ] :
      tool \in Tools, points \in RenderPointSeqs, color \in RenderColors }

InitRender ==
    \E path \in RenderPaths :
        /\ isReadOnly = FALSE
        /\ isDrawing = FALSE
        /\ currentTool = path.tool
        /\ strokeColor = path.color
        /\ strokeWidth = path.strokeWidth
        /\ paths = << path >>
        /\ undoStack = << << >> >>
        /\ redoStack = << >>
        /\ currentPath = Null
        /\ canvas = NewContext
        /\ now = 0
        /\ canvasRef = TRUE
        /\ offered = NoDownload
        /\ lastOp = [name |-> "render", pos |-> NoPos]
        /\ prev = Surface(State)

\* the effect on [paths] runs redrawCanvas for the state just rendered
RedrawEffect ==
    /\ lastOp.name = "render"
    /\ canvas' = redrawCanvas(State, canvas)
    /\ lastOp' = [name |-> "redrawCanvas", pos |-> NoPos]
    /\ UNCHANGED << isReadOnly, isDrawing, currentTool, strokeColor, strokeWidth,
                    paths, undoStack, redoStack, currentPath, now, canvasRef,
                    offered, prev >>

NextRender == RedrawEffect

SpecRender == InitRender /\ [][NextRender]_vars

---------------------------------------------------------------------------
(* The layering specification: redrawCanvas applied to a widget that holds *)
(* up to MaxLayers committed paths, with or without a gesture under way,   *)
(* on a context that has painted nothing yet or shows an earlier drawing.  *)

LayerPointSeqs ==
    { << [x |-> 0, y |-> 0] >>,
      << [x |-> 0, y |-> 0], [x |-> 3, y |-> 4] >>,
      << [x |-> 10, y |-> 10], [x |-> 50, y |-> 40], [x |-> 3, y |-> 4] >> }

LayerPaths ==
    { [ id |-> ToString(0), tool |-> tool, points |-> points, color |-> color,
        strokeWidth |-> DefaultStrokeWidth, timestamp |-> 0 ] :
      tool \in Tools, points \in LayerPointSeqs, color \in RenderColors }

\* the gesture under way, if there is one: a drag between two points
LayerGestures ==
    {Null} \cup { path \in LayerPaths :
                     Len(path.points) = 2 /\ path.color = colors[1] }

\* the context before the redraw: fresh, or left by the drawing of a line
LayerContexts ==
    { NewContext,
      drawPath(NewContext,
               [ id |-> ToString(0), tool |-> "pen",
                 points |-> << [x |-> 50, y |-> 40], [x |-> 0, y |-> 0] >>,
                 color |-> colors[1], strokeWidth |-> DefaultStrokeWidth,
                 timestamp |-> 0 ]) }

InitLayers ==
    \E ps \in UNION { [1..n -> LayerPaths] : n \in 0..MaxLayers },
       cur \in LayerGestures, ctx \in LayerContexts :
        /\ isReadOnly = FALSE
        /\ isDrawing = (cur # Null)
        /\ currentTool = "pen"
        /\ strokeColor = colors[1]
        /\ strokeWidth = DefaultStrokeWidth
        /\ paths = ps
        /\ undoStack = [i \in 1..Len(ps) |-> SubSeq(ps, 1, i - 1)]
        /\ redoStack = << >>
        /\ currentPath = cur
        /\ canvas = ctx
        /\ now = 0
        /\ canvasRef = TRUE
        /\ offered = NoDownload
        /\ lastOp = [name |-> "render", pos |-> NoPos]
        /\ prev = Surface(State)

SpecLayers == InitLayers /\ [][NextRender]_vars

---------------------------------------------------------------------------
(* The style specification: the widget with two swatches and two widths    *)
(* to pick from, over the gestures that lead to the first MaxStyleCommits  *)
(* committed paths, without undo, redo and clear.                          *)

StyleWidths == { strokeWidths[2], strokeWidths[3] }

\* onClick={() => setStrokeColor(color)}, for the swatches of RenderColors
PickColor ==
    /\ ToolbarShown
    /\ \E c \in RenderColors :
          Apply([State EXCEPT !.strokeColor = c], "setStrokeColor", NoPos)
    /\ UNCHANGED isReadOnly

\* onClick={() => setStrokeWidth(width)}, for the buttons of StyleWidths
PickWidth ==
    /\ ToolbarShown
    /\ \E w \in StyleWidths :
          Apply([State EXCEPT !.strokeWidth = w], "setStrokeWidth", NoPos)
    /\ UNCHANGED isReadOnly

\* mousedown on the canvas, while fewer than MaxStyleCommits paths are committed
StyleMouseDown ==
    /\ Len(paths) < MaxStyleCommits
    /\ MouseDown

NextStyle ==
    \/ StyleMouseDown
    \/ MouseMove
    \/ MouseUp
    \/ ClickTool
    \/ PickColor
    \/ PickWidth

SpecStyle == Init /\ [][NextStyle]_vars

---------------------------------------------------------------------------
(* The export specification: downloadCanvas as a function of the widget    *)
(* state, applied to a widget with or without a canvas element behind      *)
(* canvasRef, with or without a committed path and a gesture under way.    *)

\* the gesture under way, if there is one
ExportGestures ==
    { Null,
      [ id |-> ToString(0), tool |-> "pen",
        points |-> << [x |-> 0, y |-> 0], [x |-> 3, y |-> 4] >>,
        color |-> colors[1], strokeWidth |-> DefaultStrokeWidth,
        timestamp |-> 0 ] }

InitExport ==
    \E ps \in {<< >>} \cup { << path >> : path \in RenderPaths },
       cur \in ExportGestures, ref \in BOOLEAN, t \in 0..MaxTime :
        /\ isReadOnly = FALSE
        /\ isDrawing = (cur # Null)
        /\ currentTool = "pen"
        /\ strokeColor = colors[1]
        /\ strokeWidth = DefaultStrokeWidth
        /\ paths = ps
        /\ undoStack = [i \in 1..Len(ps) |-> << >>]
        /\ redoStack = << >>
        /\ currentPath = cur
        /\ canvasRef = ref
        /\ canvas = IF ref
                    THEN redrawCanvas([paths |-> ps, currentPath |-> cur,
                                       isDrawing |-> (cur # Null)], NewContext)
                    ELSE NewContext
        /\ now = t
        /\ offered = NoDownload
        /\ lastOp = [name |-> "render", pos |-> NoPos]
        /\ prev = Surface(State)

NextExport == ClickDownload

SpecExport == InitExport /\ [][NextExport]_vars

---------------------------------------------------------------------------
(* Operators the properties below are written with *)

\* a gesture is active in the surface record f
GestureActive(f) == f.isDrawing /\ f.currentPath # Null

\* the widget state whose surface is f and whose other parts are those of s
WithSurface(s, f) ==
    [s EXCEPT !.isDrawing = f.isDrawing, !.currentTool = f.currentTool,
              !.strokeColor = f.strokeColor, !.strokeWidth = f.strokeWidth,
              !.paths = f.paths, !.undoStack = f.undoStack,
              !.redoStack = f.redoStack, !.currentPath = f.currentPath]

\* the state the last handler ran against, as far as prev records it
PrevState == WithSurface(State, prev)

\* the last handler committed a gesture
Committed ==
    /\ lastOp.name \in {"mouseUp", "mouseLeave"}
    /\ GestureActive(prev)

\* draw at points[i], points[i + 1], ...
RECURSIVE drawEach(_, _, _)
drawEach(s, points, i) ==
    IF i > Len(points) THEN s ELSE drawEach(draw(s, points[i]), points, i + 1)

\* one whole gesture: pointer down at points[1], moves through the other
\* points, pointer up
Gesture(s, points) == onMouseUp(drawEach(startDrawing(s, points[1]), points, 2))

\* one gesture after the other
RECURSIVE Gestures(_, _)
Gestures(s, gs) ==
    IF gs = << >> THEN s ELSE Gestures(Gesture(s, Head(gs)), Tail(gs))

RECURSIVE Undos(_, _)
Undos(s, n) == IF n = 0 THEN s ELSE Undos(undo(s), n - 1)

RECURSIVE Redos(_, _)
Redos(s, n) == IF n = 0 THEN s ELSE Redos(redo(s), n - 1)

\* the gestures of the reversibility property: up to MaxCommits in a row,
\* each a click without drag or a drag between two positions
MaxCommits == 2

GesturePointSeqs ==
    { << [x |-> 0, y |-> 0] >>, << [x |-> 3, y |-> 4], [x |-> 0, y |-> 0] >> }

---------------------------------------------------------------------------
(* Properties *)

\* C1: from every reachable state of a writable surface with no gesture
\* active, after any N >= 1 commits, N undos followed by N redos give back
\* exactly the committed sequence that the N commits produced.
UndoRedoReversible ==
    (~isReadOnly /\ ~isDrawing /\ currentPath = Null) =>
        \A n \in 1..MaxCommits : \A gs \in [1..n -> GesturePointSeqs] :
            LET after == Gestures(State, gs)
            IN /\ Len(after.paths) = Len(paths) + n
               /\ Redos(Undos(after, n), n).paths = after.paths

\* C1 witness: two commits, two undos and two redos have run: the second
\* redo has just brought back both paths.
UndoRedoReversibleWitness ==
    /\ lastOp.name = "redo"
    /\ Len(paths) = 2
    /\ undoStack = << << >>, << paths[1] >> >>
    /\ redoStack = << >>
    /\ prev.redoStack = << paths >>
    /\ Redos(Undos(State, 2), 2).paths = paths
    /\ Undos(State, 2).paths = << >>

\* C2: right after a commit and right after a clear the redo stack is empty.
RedoInvalidated ==
    (Committed \/ lastOp.name = "clearCanvas") => redoStack = << >>

\* C2 witness: a clear has just emptied a redo stack that held a snapshot.
RedoInvalidatedWitness ==
    /\ lastOp.name = "clearCanvas"
    /\ prev.redoStack # << >>
    /\ redoStack = << >>

\* C3: undo on an empty undo stack and redo on an empty redo stack change
\* nothing of the surface state.
NoOpOnEmptyStacks ==
    /\ (lastOp.name = "undo" /\ prev.undoStack = << >>) => Surface(State) = prev
    /\ (lastOp.name = "redo" /\ prev.redoStack = << >>) => Surface(State) = prev

\* C3 witness: undo has just run on an empty undo stack while there was
\* something to lose: a non-empty redo stack.
NoOpOnEmptyStacksWitness ==
    /\ lastOp.name = "undo"
    /\ prev.undoStack = << >>
    /\ prev.redoStack # << >>
    /\ Surface(State) = prev

\* C4: with no gesture active, pointer-move, pointer-up and pointer-leave
\* change nothing of the surface state.
GestureIsolation ==
    (lastOp.name \in {"draw", "mouseUp", "mouseLeave"} /\ ~GestureActive(prev))
        => Surface(State) = prev

\* C4 witness: a pointer-leave right after the pointer-up that committed a
\* gesture: the path is in the list once.
GestureIsolationWitness ==
    /\ lastOp.name = "mouseLeave"
    /\ ~GestureActive(prev)
    /\ Len(paths) = 1
    /\ undoStack = << << >> >>
    /\ Surface(State) = prev

\* C5: a pointer-leave during a gesture does what pointer-up does: the
\* in-progress path, with the points it has, becomes the last committed
\* path, the list before it is pushed on the undo stack, the redo stack is
\* emptied and no gesture is active.
PointerLeaveCommits ==
    (lastOp.name = "mouseLeave" /\ GestureActive(prev)) =>
        /\ paths = Append(prev.paths, prev.currentPath)
        /\ undoStack = Append(prev.undoStack, prev.paths)
        /\ redoStack = << >>
        /\ currentPath = Null
        /\ ~isDrawing
        /\ Surface(State) = Surface(onMouseUp(PrevState))

\* C5 witness: a gesture extended to MaxPoints points has just been ended
\* by a pointer-leave, and its path is the one new committed path.
PointerLeaveCommitsWitness ==
    /\ lastOp.name = "mouseLeave"
    /\ GestureActive(prev)
    /\ Len(prev.currentPath.points) = MaxPoints
    /\ Len(paths) = Len(prev.paths) + 1
    /\ paths[Len(paths)].points = prev.currentPath.points

\* C6: clear, from a list C empty or not, leaves an empty list, the undo
\* stack with C pushed on top and an empty redo stack; an undo right after
\* it brings C back.
ClearSemantics ==
    lastOp.name = "clearCanvas" =>
        /\ paths = << >>
        /\ undoStack = Append(prev.undoStack, prev.paths)
        /\ redoStack = << >>
        /\ undo(State).paths = prev.paths

\* C6 witness: a clear of a non-empty list has just run.
ClearSemanticsWitness ==
    /\ lastOp.name = "clearCanvas"
    /\ prev.paths # << >>
    /\ paths = << >>
    /\ undo(State).paths = prev.paths

\* C7: redo undoes an undo and undo undoes a redo, for the list and both
\* stacks; an undo right after a commit gives the list before the commit
\* and a redo stack of one snapshot, and the redo after it gives the list
\* with the committed path back.
UndoRedoInverse ==
    /\ (lastOp.name = "undo" /\ prev.undoStack # << >>) =>
           LET r == redo(State)
           IN /\ r.paths = prev.paths
              /\ r.undoStack = prev.undoStack
              /\ r.redoStack = prev.redoStack
    /\ (lastOp.name = "redo" /\ prev.redoStack # << >>) =>
           LET u == undo(State)
           IN /\ u.paths = prev.paths
              /\ u.undoStack = prev.undoStack
              /\ u.redoStack = prev.redoStack
    /\ Committed =>
           LET u == undo(State)
           IN /\ u.paths = prev.paths
              /\ Len(u.redoStack) = 1
              /\ redo(u).paths = paths
              /\ paths[Len(paths)] = prev.currentPath

\* C7 witness: an undo has just run from a state that already had an undone
\* snapshot on the redo stack.
UndoRedoInverseWitness ==
    /\ lastOp.name = "undo"
    /\ prev.undoStack # << >>
    /\ Len(redoStack) = 2
    /\ redo(State).paths = prev.paths

\* the paint calls on the surface that stroke or fill something
PaintCalls == { canvas.image[k] : k \in DOMAIN canvas.image }

\* the squared length of the offset from point a to point b
SquaredDistance(a, b) == (b.x - a.x) * (b.x - a.x) + (b.y - a.y) * (b.y - a.y)

\* the square of a radius as MathSqrt gives it
RadiusSquared(r) == r.whole * r.whole + r.rest

\* C8: a redraw paints, for a rectangle path of at least 2 points, the
\* outline of the rectangle with corners points[0] and points[last], and for
\* a circle path of at least 2 points the outline of the circle centred at
\* points[0] whose radius squared is dx * dx + dy * dy; nothing but the
\* background is filled.
RectangleCircleGeometry ==
    lastOp.name = "redrawCanvas" =>
        \A i \in DOMAIN paths :
            LET path == paths[i]
                first == path.points[1]
                last == path.points[Len(path.points)]
            IN Len(path.points) >= 2 =>
                /\ path.tool = "rectangle" =>
                     /\ \E o \in PaintCalls :
                           /\ o.op = "strokeRect"
                           /\ o.x = first.x /\ o.y = first.y
                           /\ o.w = last.x - first.x /\ o.h = last.y - first.y
                           /\ o.strokeStyle = path.color
                           /\ o.lineWidth = path.strokeWidth
                           /\ o.globalCompositeOperation = "source-over"
                     /\ (first = [x |-> 10, y |-> 10] /\ last = [x |-> 50, y |-> 40])
                           => \E o \in PaintCalls :
                                 o.op = "strokeRect" /\ o.w = 40 /\ o.h = 30
                /\ path.tool = "circle" =>
                     \E o \in PaintCalls :
                        /\ o.op = "stroke"
                        /\ Len(o.subpath) = 1
                        /\ o.subpath[1].seg = "arc"
                        /\ o.subpath[1].x = first.x /\ o.subpath[1].y = first.y
                        /\ o.subpath[1].radius.rest \in 0 .. 2 * o.subpath[1].radius.whole
                        /\ RadiusSquared(o.subpath[1].radius) = SquaredDistance(first, last)
                        /\ o.strokeStyle = path.color
                        /\ o.lineWidth = path.strokeWidth
                        /\ o.globalCompositeOperation = "source-over"
                /\ path.tool \in {"rectangle", "circle"} =>
                     \A k \in DOMAIN canvas.image :
                        canvas.image[k].op = "fillRect" => k = 1

\* C8 witness: the circle path [(0,0), (50,40), (3,4)] has been drawn as the
\* circle of radius 5 around (0,0): the point in between plays no part.
RectangleCircleGeometryWitness ==
    /\ lastOp.name = "redrawCanvas"
    /\ paths[1].tool = "circle"
    /\ Len(paths[1].points) = 3
    /\ paths[1].points[1] = [x |-> 0, y |-> 0]
    /\ paths[1].points[2] = [x |-> 50, y |-> 40]
    /\ paths[1].points[3] = [x |-> 3, y |-> 4]
    /\ \E o \in PaintCalls :
          /\ o.op = "stroke"
          /\ o.subpath = << [seg |-> "arc", x |-> 0, y |-> 0,
                             radius |-> [whole |-> 5, rest |-> 0],
                             startAngle |-> "0", endAngle |-> "2*PI"] >>

\* a toolbar button can be activated: it is rendered and not disabled
UndoEnabled == ToolbarShown /\ ~UndoDisabled

RedoEnabled == ToolbarShown /\ ~RedoDisabled

ClearEnabled == ToolbarShown /\ ~ClearDisabled

DownloadEnabled == ToolbarShown /\ ~DownloadDisabled

---------------------------------------------------------------------------
(* The gated specification: the widget whose Undo, Redo and Clear All      *)
(* buttons are clicked only while they are not disabled.                   *)

GatedUndo ==
    /\ UndoEnabled
    /\ ClickUndo

GatedRedo ==
    /\ RedoEnabled
    /\ ClickRedo

GatedClear ==
    /\ ClearEnabled
    /\ ClickClear

NextGated ==
    \/ MouseDown
    \/ MouseMove
    \/ MouseUp
    \/ MouseLeave
    \/ GatedUndo
    \/ GatedRedo
    \/ GatedClear
    \/ ClickTool
    \/ ClickColor
    \/ ClickWidth
    \/ ClickDownload
    \/ Tick

SpecGated == Init /\ [][NextGated]_vars

\* C9 as stated: in every state undo is disabled exactly when the undo
\* stack is empty, redo exactly when the redo stack is empty, clear exactly
\* when the committed list is empty, and download is enabled.
ControlsGatedEverywhere ==
    /\ ~UndoEnabled <=> undoStack = << >>
    /\ ~RedoEnabled <=> redoStack = << >>
    /\ ~ClearEnabled <=> paths = << >>
    /\ DownloadEnabled

\* C9 amended: on a surface that is not read-only the four buttons are gated
\* as stated; on a read-only surface the toolbar is not rendered, so none of
\* them, download included, can be activated.
ControlsGatedWhenShown ==
    /\ ~isReadOnly =>
          /\ ~UndoEnabled <=> undoStack = << >>
          /\ ~RedoEnabled <=> redoStack = << >>
          /\ ~ClearEnabled <=> paths = << >>
          /\ DownloadEnabled
    /\ isReadOnly =>
          ~UndoEnabled /\ ~RedoEnabled /\ ~ClearEnabled /\ ~DownloadEnabled

\* C9 witness: a writable surface with an empty committed list, a non-empty
\* undo stack and a non-empty redo stack: clear is disabled, undo and redo
\* are not.
ControlsGatedWitness ==
    /\ ~isReadOnly
    /\ paths = << >> /\ undoStack # << >> /\ redoStack # << >>
    /\ ~ClearEnabled /\ UndoEnabled /\ RedoEnabled /\ DownloadEnabled

\* C10: on a read-only surface a pointer-down starts no gesture and changes
\* nothing of the surface state.
ReadOnlyBeginNoOp ==
    (lastOp.name = "startDrawing" /\ isReadOnly) =>
        /\ ~isDrawing
        /\ currentPath = Null
        /\ Surface(State) = prev

\* C10 witness: a pointer-down has just been handled on a read-only surface.
ReadOnlyBeginNoOpWitness ==
    /\ lastOp.name = "startDrawing"
    /\ lastOp.pos \in Positions
    /\ isReadOnly
    /\ ~isDrawing

---------------------------------------------------------------------------
\* C11: export never changes the Surface State (the committed list, both
\* stacks, the in-progress path and the selectors are the same after
\* downloadCanvas as before it); with a canvas it offers a file, and when
\* the canvas is not available it offers nothing and raises no error.
ExportFrame ==
    lastOp.name = "downloadCanvas" =>
        /\ Surface(State) = prev
        /\ canvasRef =>
              \E t \in 0..now :
                  offered = [ download |-> "whiteboard-" \o ToString(t) \o ".png",
                              href |-> toDataURL(canvas) ]
        /\ ~canvasRef => offered = NoDownload

ExportFrameWitness ==
    /\ lastOp.name = "downloadCanvas"
    /\ ~canvasRef
    /\ Len(paths) = 1
    /\ currentPath # Null

\* the paths of a sequence of snapshots
SnapshotPaths(stack) ==
    UNION { { stack[i][j] : j \in DOMAIN stack[i] } : i \in DOMAIN stack }

\* the paths the surface record f holds in its committed list or in a
\* snapshot of either stack
HistoryPaths(f) ==
    { f.paths[j] : j \in DOMAIN f.paths }
        \cup SnapshotPaths(f.undoStack) \cup SnapshotPaths(f.redoStack)

\* those paths and the in-progress path
AllPaths(f) ==
    HistoryPaths(f) \cup (IF f.currentPath = Null THEN {} ELSE {f.currentPath})

\* C12: in every reachable state no two different paths among the
\* committed list, the in-progress path and all snapshots have the same id.
UniqueIds ==
    \A p, q \in AllPaths(Surface(State)) : p.id = q.id => p = q

\* C13: ending an active gesture from committed list C, undo stack U and
\* in-progress path P gives undo stack U with C on top, an empty redo stack,
\* committed list C followed by P and no in-progress path; no other
\* operation brings a path into the committed list or a snapshot that was
\* in neither before.
EndCommitsGesture ==
    /\ Committed =>
           /\ undoStack = prev.undoStack \o << prev.paths >>
           /\ redoStack = << >>
           /\ Len(paths) = Len(prev.paths) + 1
           /\ \A j \in DOMAIN prev.paths : paths[j] = prev.paths[j]
           /\ paths[Len(paths)] = prev.currentPath
           /\ currentPath = Null
           /\ ~isDrawing
    /\ ~Committed => HistoryPaths(Surface(State)) \subseteq HistoryPaths(prev)

\* C13 witness: a gesture has just been ended on a surface that had a
\* committed path and a snapshot on each stack.
EndCommitsGestureWitness ==
    /\ lastOp.name = "mouseUp"
    /\ GestureActive(prev)
    /\ prev.paths # << >> /\ prev.undoStack # << >> /\ prev.redoStack # << >>
    /\ paths = Append(prev.paths, prev.currentPath)
    /\ prev.currentPath \notin HistoryPaths(prev)

\* C14: a pointer-down while a gesture is active is a no-op: the
\* in-progress path is kept as it was, with its id, tool, color, width and
\* points, and no second gesture is started.
BeginWhileActiveNoOp ==
    (lastOp.name = "startDrawing" /\ GestureActive(prev)) =>
        /\ currentPath = prev.currentPath
        /\ Surface(State) = prev

\* C15: undo from a non-empty undo stack makes the last pushed snapshot the
\* committed list, takes it off the undo stack and pushes the list it
\* replaces on the redo stack; redo from a non-empty redo stack makes the
\* last undone snapshot the committed list, takes it off the redo stack
\* and pushes the list it replaces on the undo stack; after k undos, the
\* j-th of k redos gives the list that the (k - j)-th undo had given.
UndoRedoStacks ==
    /\ (lastOp.name = "undo" /\ prev.undoStack # << >>) =>
           /\ paths = prev.undoStack[Len(prev.undoStack)]
           /\ undoStack \o << paths >> = prev.undoStack
           /\ redoStack = << prev.paths >> \o prev.redoStack
    /\ (lastOp.name = "redo" /\ prev.redoStack # << >>) =>
           /\ paths = prev.redoStack[1]
           /\ << paths >> \o redoStack = prev.redoStack
           /\ undoStack = prev.undoStack \o << prev.paths >>
    /\ \A k \in 1..Len(undoStack) : \A j \in 0..k :
           LET undone == Undos(State, k)
               redone == Redos(undone, j)
               visited == Undos(State, k - j)
           IN /\ redone.paths = visited.paths
              /\ redone.undoStack = visited.undoStack
              /\ redone.redoStack = visited.redoStack

\* C15 witness: the first redo after two undos of two different lists has
\* just brought back the list undone last.
UndoRedoStacksWitness ==
    /\ lastOp.name = "redo"
    /\ Len(prev.redoStack) = 2
    /\ prev.redoStack[1] # prev.redoStack[2]
    /\ paths = prev.redoStack[1]
    /\ Len(redoStack) = 1
    /\ undoStack # << >>

\* the widget state s with only the first and the last point of paths[i]
EndpointsOnly(s, i) ==
    LET points == s.paths[i].points
    IN [s EXCEPT !.paths[i].points = << points[1], points[Len(points)] >>]

\* the paint call o strokes a line segment between two different points
StrokesLine(o) ==
    /\ o.op = "stroke"
    /\ \E k \in DOMAIN o.subpath :
          /\ k > 1
          /\ o.subpath[k].seg = "lineTo"
          /\ << o.subpath[k].x, o.subpath[k].y >>
                 # << o.subpath[k - 1].x, o.subpath[k - 1].y >>

\* the opaque white fill of the whole area
Background ==
    [ op |-> "fillRect", x |-> 0, y |-> 0, w |-> width, h |-> height,
      fillStyle |-> "#ffffff", globalCompositeOperation |-> "source-over" ]

\* C16: for a rectangle or circle path the redraw paints what it paints for
\* the path reduced to its first and last point, and paints no line through
\* the collected points besides the rectangle or circle.
ShapeIgnoresCollectedPoints ==
    lastOp.name = "redrawCanvas" =>
        \A i \in DOMAIN paths :
            (paths[i].tool \in {"rectangle", "circle"} /\ Len(paths[i].points) >= 2) =>
                /\ canvas.image = redrawCanvas(EndpointsOnly(State, i), NewContext).image
                /\ \A o \in PaintCalls : ~StrokesLine(o)

\* C17: a redraw paints nothing for a path whose tool is move, however many
\* points it has: on a surface whose only path is a move path there is the
\* background fill and no line, rectangle or circle.
MovePaintsNothing ==
    (/\ lastOp.name = "redrawCanvas"
     /\ \A i \in DOMAIN paths : paths[i].tool = "move"
     /\ currentPath = Null) =>
            \A o \in PaintCalls :
                \/ o = Background
                \/ /\ o.op = "stroke"
                   /\ ~StrokesLine(o)
                   /\ \A k \in DOMAIN o.subpath : o.subpath[k].seg # "arc"

\* C18: after each of begin, extend, end, undo, redo and clear the surface
\* shows the redraw of the state the operation has produced: the committed
\* paths in order and, while a gesture is active, the in-progress path with
\* the point the latest extend appended.
SurfaceShowsState ==
    lastOp.name \in {"startDrawing", "draw", "mouseUp", "mouseLeave",
                     "undo", "redo", "clearCanvas"} =>
        canvas.image = redrawCanvas(State, NewContext).image

\* the paths a redraw for state s paints, bottom first: the committed ones
\* and, while a gesture is active, the in-progress one
Layers(s) ==
    IF s.currentPath # Null /\ s.isDrawing
    THEN Append(s.paths, s.currentPath)
    ELSE s.paths

\* the paint calls of the path p drawn on its own
PaintOf(p) == drawPath(NewContext, p).image

\* the paint calls of layers[i], layers[i + 1], ... one after the other
RECURSIVE PaintOfAll(_, _)
PaintOfAll(layers, i) ==
    IF i > Len(layers) THEN << >>
    ELSE PaintOf(layers[i]) \o PaintOfAll(layers, i + 1)

\* C19: a redraw leaves on the surface the white fill of the whole area,
\* then what each committed path paints, in list order, then, only while a
\* gesture is active, what the in-progress path paints; nothing of what the
\* surface showed before remains, so the result is a function of the
\* committed list and the in-progress path.
FullRedraw ==
    lastOp.name = "redrawCanvas" =>
        /\ canvas.image = << Background >> \o PaintOfAll(Layers(State), 1)
        /\ canvas.image = redrawCanvas(State, NewContext).image
        /\ ~isDrawing => canvas.image = << Background >> \o PaintOfAll(paths, 1)

\* C19 witness: two different visible committed paths and a visible
\* in-progress path have been drawn, the in-progress path last.
FullRedrawWitness ==
    /\ lastOp.name = "redrawCanvas"
    /\ Len(paths) = 2
    /\ paths[1] # paths[2]
    /\ \A i \in DOMAIN paths : Len(paths[i].points) >= 2
    /\ isDrawing /\ currentPath # Null
    /\ Len(currentPath.points) >= 2
    /\ currentPath.tool = "pen" /\ paths[2].tool = "circle"
    /\ canvas.image[Len(canvas.image)].strokeStyle = currentPath.color
    /\ canvas.image[Len(canvas.image)].subpath[1].seg = "moveTo"

\* what the paint call o does to the surface: composited destination-out it
\* takes away what lies under its shape and adds nothing, whatever its
\* (opaque) color; otherwise it paints its shape in its color
Composite(o) ==
    IF o.op # "fillRect" /\ o.globalCompositeOperation = "destination-out"
    THEN [removes |-> TRUE, call |-> [o EXCEPT !.strokeStyle = "opaque"]]
    ELSE [removes |-> FALSE, call |-> o]

CompositeAll(image) == [k \in DOMAIN image |-> Composite(image[k])]

\* the polyline through points as a current path
Polyline(points) ==
    [k \in DOMAIN points |->
        [seg |-> IF k = 1 THEN "moveTo" ELSE "lineTo",
         x |-> points[k].x, y |-> points[k].y]]

\* the sequence seq without its k-th element
Without(seq, k) == SubSeq(seq, 1, k - 1) \o SubSeq(seq, k + 1, Len(seq))

\* the state s with the k-th of its layers taken out
WithoutLayer(s, k) ==
    IF k <= Len(s.paths)
    THEN [s EXCEPT !.paths = Without(s.paths, k)]
    ELSE [s EXCEPT !.currentPath = Null, !.isDrawing = FALSE]

\* the state s with the k-th of its layers in color c
Recolored(s, k, c) ==
    IF k <= Len(s.paths)
    THEN [s EXCEPT !.paths[k].color = c]
    ELSE [s EXCEPT !.currentPath.color = c]

\* C20: an eraser path of at least 2 points is drawn by one paint call, the
\* stroke of the polyline through all its points composited
\* destination-out: it takes away from what the background fill and the
\* earlier paths have painted, adds nothing, does the same whatever the
\* path's color, and comes before the paint calls of the later paths, which
\* are the ones made without it.
EraserRemoves ==
    lastOp.name = "redrawCanvas" =>
        \A k \in DOMAIN Layers(State) :
            LET path == Layers(State)[k]
                under == << Background >> \o PaintOfAll(SubSeq(Layers(State), 1, k - 1), 1)
                at == Len(under) + 1
            IN (path.tool = "eraser" /\ Len(path.points) >= 2) =>
                /\ SubSeq(canvas.image, 1, Len(under)) = under
                /\ canvas.image[at].op = "stroke"
                /\ canvas.image[at].subpath = Polyline(path.points)
                /\ canvas.image[at].lineWidth = path.strokeWidth
                /\ Composite(canvas.image[at]).removes
                /\ Without(canvas.image, at)
                       = redrawCanvas(WithoutLayer(State, k), NewContext).image
                /\ \A c \in RenderColors :
                       CompositeAll(redrawCanvas(Recolored(State, k, c), NewContext).image)
                           = CompositeAll(canvas.image)

\* C20 witness: an eraser path of three points has been drawn between a
\* pen path under it and a rectangle path over it.
EraserRemovesWitness ==
    /\ lastOp.name = "redrawCanvas"
    /\ Len(paths) = 2
    /\ paths[1].tool = "pen" /\ Len(paths[1].points) = 2
    /\ paths[2].tool = "eraser" /\ Len(paths[2].points) = 3
    /\ isDrawing /\ currentPath # Null
    /\ currentPath.tool = "rectangle" /\ Len(currentPath.points) = 2
    /\ Len(canvas.image) = 5
    /\ Composite(canvas.image[3]).removes
    /\ ~Composite(canvas.image[2]).removes
    /\ ~Composite(canvas.image[4]).removes

\* C21: a path of fewer than 2 points paints nothing, whatever its tool:
\* after the redraw the surface holds the background fill only, and drawing
\* the path, or a path of any tool without points, leaves the context as
\* it was.
ShortPathPaintsNothing ==
    (lastOp.name = "redrawCanvas" /\ Len(paths[1].points) < 2) =>
        /\ canvas.image = << Background >>
        /\ drawPath(canvas, paths[1]) = canvas
        /\ \A tool \in Tools :
              drawPath(canvas, [paths[1] EXCEPT !.tool = tool, !.points = << >>])
                  = canvas

\* C21 witness: an eraser path of one point has been drawn and the surface
\* holds the background fill only.
ShortPathPaintsNothingWitness ==
    /\ lastOp.name = "redrawCanvas"
    /\ paths[1].tool = "eraser"
    /\ Len(paths[1].points) = 1
    /\ canvas.image = << Background >>

\* C22: a pointer-down followed at once by a pointer-up commits a path of
\* one point: the committed list and the Paths count shown grow by one,
\* the undo stack grows by one snapshot, the redo stack is emptied, and the
\* surface shows what it showed for the list before, the new path painting
\* nothing.
ClickCommits ==
    /\ (lastOp.name = "mouseUp" /\ GestureActive(prev)
            /\ Len(prev.currentPath.points) = 1) =>
           /\ Len(paths) = Len(prev.paths) + 1
           /\ paths[Len(paths)] = prev.currentPath
           /\ PathsShown = Len(prev.paths) + 1
           /\ UndoShown = Len(prev.undoStack) + 1
           /\ redoStack = << >>
           /\ PaintOf(paths[Len(paths)]) = << >>
           /\ canvas.image = << Background >> \o PaintOfAll(prev.paths, 1)
    /\ (~isReadOnly /\ ~isDrawing /\ currentPath = Null) =>
           \A pos \in Positions :
               LET click == onMouseUp(startDrawing(State, pos))
               IN /\ Len(click.paths) = Len(paths) + 1
                  /\ click.paths = Append(paths, click.paths[Len(click.paths)])
                  /\ click.paths[Len(click.paths)].points = << pos >>
                  /\ click.undoStack = Append(undoStack, paths)
                  /\ click.redoStack = << >>
                  /\ click.canvas.image = << Background >> \o PaintOfAll(paths, 1)

\* C22 witness: a click without drag has just been committed on a surface
\* that had a committed path and an undone snapshot.
ClickCommitsWitness ==
    /\ lastOp.name = "mouseUp"
    /\ GestureActive(prev)
    /\ Len(prev.currentPath.points) = 1
    /\ prev.paths # << >>
    /\ prev.redoStack # << >>
    /\ PathsShown = Len(prev.paths) + 1
    /\ redoStack = << >>

\* the fields of a path that are set once, when it is created
Style(p) ==
    [id |-> p.id, tool |-> p.tool, color |-> p.color, strokeWidth |-> p.strokeWidth]

\* C23: a pointer-down on a writable surface with no gesture active makes
\* the in-progress path with the pointer position as its only point and
\* the selected tool, color and width, and leaves the committed list and
\* both stacks as they were; after that no pointer-move, pointer-up or
\* selector change alters the id, tool, color or width of the in-progress
\* path or of a committed path.
StyleFixedAtBegin ==
    /\ (lastOp.name = "startDrawing" /\ ~isReadOnly /\ ~GestureActive(prev)) =>
           /\ currentPath # Null
           /\ currentPath.points = << getMousePos(lastOp.pos) >>
           /\ currentPath.tool = prev.currentTool
           /\ currentPath.color = prev.strokeColor
           /\ currentPath.strokeWidth = prev.strokeWidth
           /\ paths = prev.paths
           /\ undoStack = prev.undoStack
           /\ redoStack = prev.redoStack
    /\ (lastOp.name \in {"draw", "setCurrentTool", "setStrokeColor", "setStrokeWidth"}
            /\ GestureActive(prev)) =>
           /\ currentPath # Null
           /\ Style(currentPath) = Style(prev.currentPath)
    /\ Committed => Style(paths[Len(paths)]) = Style(prev.currentPath)
    /\ (lastOp.name \notin {"undo", "redo", "clearCanvas"}) =>
           /\ \A j \in DOMAIN prev.paths :
                 j \in DOMAIN paths /\ Style(paths[j]) = Style(prev.paths[j])
           /\ \A i \in DOMAIN prev.undoStack :
                 i \in DOMAIN undoStack /\ undoStack[i] = prev.undoStack[i]

\* C23 witness: a pointer-move has just extended a path whose tool, color
\* and width all differ from the ones selected since it was begun.
StyleFixedAtBeginWitness ==
    /\ lastOp.name = "draw"
    /\ GestureActive(prev)
    /\ Len(currentPath.points) = 2
    /\ currentPath.tool # currentTool
    /\ currentPath.color # strokeColor
    /\ currentPath.strokeWidth # strokeWidth

\* the elements of a sequence
Range(seq) == { seq[i] : i \in DOMAIN seq }

\* the committed list and the snapshots of both stacks of surface record f
Lists(f) == {f.paths} \cup Range(f.undoStack) \cup Range(f.redoStack)

\* C24: a pointer-move during a gesture appends its position as the new
\* last point and keeps the earlier points in order; every list the
\* surface holds after an operation, committed or snapshot, is a list it
\* held before, or the empty list, or at a commit the committed list with
\* the in-progress path appended, so the points of a committed path are
\* never changed.
PointsAppendOnly ==
    /\ (lastOp.name = "draw" /\ GestureActive(prev) /\ ~isReadOnly) =>
           /\ currentPath # Null
           /\ currentPath.points
                  = prev.currentPath.points \o << getMousePos(lastOp.pos) >>
    /\ (isDrawing /\ currentPath # Null /\ ~isReadOnly) =>
           \A pos \in Positions :
               LET extended == draw(State, pos).currentPath.points
               IN /\ Len(extended) = Len(currentPath.points) + 1
                  /\ extended[Len(extended)] = pos
                  /\ \A k \in DOMAIN currentPath.points :
                        extended[k] = currentPath.points[k]
    /\ \A list \in Lists(Surface(State)) :
           \/ list \in Lists(prev)
           \/ lastOp.name = "clearCanvas" /\ list = << >>
           \/ Committed /\ list = Append(prev.paths, prev.currentPath)

\* C24 witness: a pointer-move has just appended a second, different point
\* while a committed path and a snapshot were held.
PointsAppendOnlyWitness ==
    /\ lastOp.name = "draw"
    /\ GestureActive(prev)
    /\ Len(currentPath.points) = 2
    /\ currentPath.points[1] # currentPath.points[2]
    /\ paths # << >>
    /\ undoStack # << >>

\* C25: the drawing flag is set exactly when there is an in-progress path,
\* which is one path; at mount the committed list and both stacks are empty
\* and no gesture is active.
OneGestureAtMost ==
    /\ isDrawing <=> currentPath # Null
    /\ currentPath # Null =>
           DOMAIN currentPath
               = {"id", "tool", "points", "color", "strokeWidth", "timestamp"}
    /\ lastOp.name = "mount" =>
           /\ paths = << >> /\ undoStack = << >> /\ redoStack = << >>
           /\ ~isDrawing /\ currentPath = Null

\* C25 witness: a gesture is still active after an undo that ran during it.
OneGestureAtMostWitness ==
    /\ lastOp.name = "undo"
    /\ prev.undoStack # << >>
    /\ isDrawing
    /\ currentPath # Null
    /\ Len(currentPath.points) = 2

\* the snapshots and the committed list in the order of the history: the
\* undo stack from its oldest snapshot, the committed list, the redo stack
\* from its front
Timeline(f) == f.undoStack \o << f.paths >> \o f.redoStack

\* the list next is the list before with exactly one path appended
OneMore(before, next) ==
    /\ Len(next) = Len(before) + 1
    /\ \A j \in DOMAIN before : next[j] = before[j]

\* C26: in every reachable state the history, read from the oldest undo
\* snapshot through the committed list to the back of the redo stack,
\* starts with the empty list, and each later element is its predecessor
\* with exactly one path appended, or is empty.
HistoryTimeline ==
    LET timeline == Timeline(Surface(State))
    IN /\ timeline[1] = << >>
       /\ \A i \in 2..Len(timeline) :
              \/ timeline[i] = << >>
              \/ OneMore(timeline[i - 1], timeline[i])

\* C26 witness: the history holds the empty list, a list of one path as
\* the committed list and an undone list of two paths.
HistoryTimelineWitness ==
    /\ Len(undoStack) = 1
    /\ Len(paths) = 1
    /\ Len(redoStack) = 1
    /\ OneMore(paths, redoStack[1])
    /\ OneMore(undoStack[1], paths)

\* C27: when Clear All is clicked only while the committed list is not
\* empty, in every reachable state the top snapshot of the undo stack and
\* the front snapshot of the redo stack differ from the committed list, so
\* an undo or redo whose button is enabled changes the committed list.
EnabledUndoRedoChange ==
    /\ undoStack # << >> => undoStack[Len(undoStack)] # paths
    /\ redoStack # << >> => redoStack[1] # paths
    /\ UndoEnabled => undo(State).paths # paths
    /\ RedoEnabled => redo(State).paths # paths

\* C27 witness: both buttons are enabled after a clear of a non-empty list
\* and an undo.
EnabledUndoRedoChangeWitness ==
    /\ lastOp.name = "undo"
    /\ UndoEnabled /\ RedoEnabled
    /\ redoStack[1] = << >>
    /\ paths # << >>
    /\ undo(State).paths # paths
    /\ redo(State).paths # paths

\* C28: on a read-only surface, whatever pointer events arrive, the
\* committed list and both stacks stay empty and no gesture is active; the
\* undo, redo and clear buttons are not there to be clicked.
ReadOnlyStaysEmpty ==
    isReadOnly =>
        /\ paths = << >> /\ undoStack = << >> /\ redoStack = << >>
        /\ ~isDrawing /\ currentPath = Null
        /\ ~UndoEnabled /\ ~RedoEnabled /\ ~ClearEnabled

\* C28 witness: a pointer-up has been handled on a read-only surface after
\* the clock has reached MaxTime.
ReadOnlyStaysEmptyWitness ==
    /\ isReadOnly
    /\ lastOp.name = "mouseUp"
    /\ now = MaxTime
    /\ paths = << >>

\* C29: an undo, redo or clear during a gesture leaves the in-progress path
\* and the drawing flag as they were, and a pointer-up after it pushes the
\* committed list of that moment on the undo stack, empties the redo stack
\* and appends the in-progress path to that list.
HistoryOpsKeepGesture ==
    (lastOp.name \in {"undo", "redo", "clearCanvas"} /\ GestureActive(prev)) =>
        /\ currentPath = prev.currentPath
        /\ isDrawing
        /\ LET ended == onMouseUp(State)
           IN /\ ended.undoStack = Append(undoStack, paths)
              /\ ended.redoStack = << >>
              /\ ended.paths = Append(paths, prev.currentPath)
              /\ ended.currentPath = Null
              /\ ~ended.isDrawing

\* C29 witness: a redo has just run during a gesture of two points and has
\* brought back a committed path.
HistoryOpsKeepGestureWitness ==
    /\ lastOp.name = "redo"
    /\ GestureActive(prev)
    /\ prev.redoStack # << >>
    /\ paths # << >>
    /\ paths # prev.paths
    /\ Len(currentPath.points) = 2

\* C30: the in-progress path and every path of the committed list and of
\* every snapshot has at least one point, and its first point is the
\* position of the pointer-down that made it: pointer-down sets it, and
\* pointer-move and commit keep it.
NoEmptyPath ==
    /\ \A p \in AllPaths(Surface(State)) :
           Len(p.points) >= 1 /\ p.points[1] \in Positions
    /\ (lastOp.name = "startDrawing" /\ ~isReadOnly) =>
           currentPath.points[1] = getMousePos(lastOp.pos)
    /\ (lastOp.name = "draw" /\ GestureActive(prev)) =>
           currentPath.points[1] = prev.currentPath.points[1]
    /\ Committed => paths[Len(paths)].points[1] = prev.currentPath.points[1]

\* C30 witness: a path begun at (3,4) and extended to (0,0) has been
\* committed after a click at (0,0).
NoEmptyPathWitness ==
    /\ Committed
    /\ Len(paths) = 2
    /\ Len(paths[1].points) = 1
    /\ paths[2].points = << [x |-> 3, y |-> 4], [x |-> 0, y |-> 0] >>

=============================================================================
